---- MODULE Spec2Model ----
(***************************************************************************)
(* Model of the urlquery client library: the functional v1 interface       *)
(* (urlquery/api.py) and the client-object v3 interface                    *)
(* (urlquery/ooapi.py).  One action per remote procedure; each action is   *)
(* the whole call: validation, defaulting, assembly and dispatch.          *)
(***************************************************************************)
EXTENDS Integers, Sequences, FiniteSets, TLC

VARIABLES
    self,       \* the URLQuery instance: base_url, gzip_default, apikey
    c,          \* the constraints module read by api.py
    tz,         \* standard UTC offset of the process's local zone, seconds east
    dst,        \* daylight-saving shift in effect in the local zone, seconds
    now,        \* the current instant, UTC epoch seconds
    ticks,      \* how many times the clock has advanced
    pc,         \* position of the caller: "ready" or "returned"
    call,       \* the procedure called last and its arguments
    ret,        \* what the call gave the caller: a value or an exception
    sent,       \* the POSTs the call issued, in order
    verr,       \* whether a validation failed while the request was built
    seen,       \* an earlier call the caller kept: its arguments and payload
    held        \* the dict the caller's own variable d refers to, if assigned

vars == <<self, c, tz, dst, now, ticks, pc, call, ret, sent, verr, seen, held>>

\* ------------------------------------------------------------- bounds
MaxTicks == 1

\* ------------------------------------------------------------- Python values
\* A value carries its Python type, so values of different types compare
\* unequal instead of being incomparable.
None == [t |-> "none", v |-> 0]
Str(s) == [t |-> "str", v |-> s]
Num(n) == [t |-> "num", v |-> n]
Bool(b) == [t |-> "bool", v |-> b]
\* A str built by concatenation, kept as the sequence of its operands.
Text(parts) == [t |-> "text", v |-> parts]

\* dict[k] = v
Put(d, k, v) == (k :> v) @@ d
\* dict.get(k)
Get(d, k) == IF k \in DOMAIN d THEN d[k] ELSE None

\* ------------------------------------------------------------- outcomes
Return(x) == [kind |-> "return", val |-> x, exc |-> ""]
Raise(e) == [kind |-> "raise", val |-> None, exc |-> e]
NoCall == [kind |-> "none", val |-> None, exc |-> ""]

\* What one call does: what the caller gets, the POSTs issued, whether a
\* validator failed on the way, and the client object and the constraints
\* module as the call leaves them.  No procedure assigns an attribute of
\* either, so both are left as they were.  dict is the dict handed to
\* URLQuery.query as the call leaves it (empty when none was).
Effect(r, s, e) == [ret |-> r, sent |-> s, verr |-> e, obj |-> self, mod |-> c, dict |-> <<>>]

\* ------------------------------------------------------------- transport
QueuedResponse == ("status" :> Str("queued")) @@ ("queue_id" :> Str("abc"))
RemoteError == ("error" :> Str("Invalid API key"))
\* requests.post(...) followed by the reading of the JSON body: a document, or
\* a transport failure that propagates.
Transport ==
    { [ok |-> TRUE, json |-> QueuedResponse],
      [ok |-> TRUE, json |-> RemoteError],
      [ok |-> FALSE, json |-> <<>>] }

\* json.dumps(query): None becomes null, the other values keep their kind.
json_value(x) == IF x.t = "none" THEN [t |-> "null", v |-> 0] ELSE x
json_dumps(query) == [k \in DOMAIN query |-> json_value(query[k])]

\* ------------------------------------------------------------- time
\* A datetime: its wall-clock fields as seconds since 1970-01-01 00:00:00 on
\* that wall clock, and its UTC offset when it is timezone-aware.
Naive(w) == [wall |-> w, aware |-> FALSE, off |-> 0]
Aware(w, o) == [wall |-> w, aware |-> TRUE, off |-> o]

\* datetime.now(): the local wall clock, naive.
datetime_now == Naive(now + tz + dst)

\* dt - timedelta(seconds=n)
minus(dt, n) == [dt EXCEPT !.wall = @ - n]

\* dt.utctimetuple(): the UTC fields of an aware datetime, the fields as they
\* are of a naive one; tm_isdst is 0 in both cases.
utctimetuple(dt) == IF dt.aware THEN dt.wall - dt.off ELSE dt.wall

\* time.mktime(t): t read as local time; with tm_isdst = 0 it is read as
\* local standard time.
mktime(t) == t - tz

Hour == 3600
Day == 86400

\* The local zones a process may run in: UTC, a zone east of Greenwich in
\* winter, a zone west of it in summer.
Zones == { [std |-> 0, dst |-> 0], [std |-> Hour, dst |-> 0],
           [std |-> -5 * Hour, dst |-> Hour] }

\* dateutil.parser.parse(s)
DateStrings == {"2012-07-14 17:30", "2012-07-14T17:30:00+02:00", "not a date"}
Wall20120714 == 1342287000
Parses(s) == s \in {"2012-07-14 17:30", "2012-07-14T17:30:00+02:00"}
parse(s) ==
    CASE s = "2012-07-14 17:30" -> Naive(Wall20120714)
      [] s = "2012-07-14T17:30:00+02:00" -> Aware(Wall20120714, 2 * Hour)

\* str(time): the text of the time module, which is what the handlers append
\* to the message of a failed conversion.
str_time == "<module 'time' (built-in)>"

\* ', '.join(items): a TypeError unless every item is a str.
RECURSIVE join_parts(_)
join_parts(items) ==
    IF Len(items) = 0 THEN <<>>
    ELSE IF Len(items) = 1 THEN <<items[1].v>>
    ELSE <<items[1].v, ", ">> \o join_parts(Tail(items))
join_ok(items) == \A i \in 1..Len(items) : items[i].t = "str"

StrList(ss) == [i \in 1..Len(ss) |-> Str(ss[i])]
In(x, items) == \E i \in 1..Len(items) : items[i] = x

\* ============================================================= ooapi.py
\* The module-level name base_url of ooapi.py.
base_url == Str("https://uqapi.net/v3/json")

\* URLQuery.__init__: the attributes the constructor sets.
URLQuery_init(base_url_arg, gzip_default_arg, apikey_arg) ==
    [ feed_type |-> StrList(<<"unfiltered", "flagged">>),
      intervals |-> StrList(<<"hour", "day">>),
      priorities |-> StrList(<<"urlfeed", "low", "medium", "high">>),
      search_types |-> StrList(<<"string", "regexp", "ids_alert",
                                 "urlquery_alert", "js_script_hash">>),
      result_types |-> StrList(<<"reports", "url_list">>),
      url_matchings |-> StrList(<<"url_host", "url_path">>),
      gzip_default |-> gzip_default_arg,
      base_url |-> IF base_url_arg # None THEN base_url_arg
                   ELSE Str("https://uqapi.net/v3/json"),
      apikey |-> IF apikey_arg # None THEN apikey_arg ELSE Str("") ]

\* self.<name>: an AttributeError when the constructor never set it.
HasAttr(name) == name \in DOMAIN self

\* The names a function body of ooapi.py can resolve besides its own
\* parameters and locals: the module's globals.
ooapi_globals == {"json", "requests", "parse", "datetime", "timedelta",
                  "time", "base_url", "gzip_default", "URLQuery"}

WithVerr(eff, e) == [eff EXCEPT !.verr = e]

\* The call leaves the dict it was handed with the contents q.
WithDict(eff, q) == [eff EXCEPT !.dict = q]

\* requests.post(url, data=json.dumps(q)) and r.json()
post_json(url, q, net) ==
    Effect(IF net.ok THEN Return(net.json) ELSE Raise("ConnectionError"),
           <<[url |-> url, data |-> json_dumps(q), response |-> net]>>, FALSE)

\* query without its check of the error field.
query_unchecked(q, gzip, apikey, net) ==
    LET q1 == IF self.gzip_default \/ gzip
              THEN Put(q, "gzip", Bool(TRUE)) ELSE q
        q2 == IF apikey # None THEN Put(q1, "key", apikey)
              ELSE Put(q1, "key", self.apikey)
    IN WithDict(post_json(base_url, q2, net), q2)

\* query keeping the per-call key on the instance.
query_storing_key(q, gzip, apikey, net) ==
    IF Get(q, "error") # None
    THEN WithDict(Effect(Return(q), <<>>, FALSE), q)
    ELSE LET q1 == IF self.gzip_default \/ gzip
                   THEN Put(q, "gzip", Bool(TRUE)) ELSE q
             q2 == IF apikey # None THEN Put(q1, "key", apikey)
                   ELSE Put(q1, "key", self.apikey)
             kept == IF apikey # None THEN apikey ELSE self.apikey
         IN [WithDict(post_json(base_url, q2, net), q2)
                EXCEPT !.obj.apikey = kept]

\* query keeping a per-call gzip request as the instance's default.
query_sticky_gzip(q, gzip, apikey, net) ==
    IF Get(q, "error") # None
    THEN WithDict(Effect(Return(q), <<>>, FALSE), q)
    ELSE LET q1 == IF self.gzip_default \/ gzip
                   THEN Put(q, "gzip", Bool(TRUE)) ELSE q
             q2 == IF apikey # None THEN Put(q1, "key", apikey)
                   ELSE Put(q1, "key", self.apikey)
             kept == self.gzip_default \/ gzip
         IN [WithDict(post_json(base_url, q2, net), q2)
                EXCEPT !.obj.gzip_default = kept]

\* URLQuery.query.  gzip and key are written into the dict it is handed, and
\* on an error that same dict is returned.
query(q, gzip, apikey, net) ==
    IF Get(q, "error") # None
    THEN WithDict(Effect(Return(q), <<>>, FALSE), q)
    ELSE LET q1 == IF self.gzip_default \/ gzip
                   THEN Put(q, "gzip", Bool(TRUE)) ELSE q
             q2 == IF apikey # None THEN Put(q1, "key", apikey)
                   ELSE Put(q1, "key", self.apikey)
         IN WithDict(post_json(base_url, q2, net), q2)

TimeError == Text(<<"Unable to convert time to timestamp: ", str_time>>)

\* URLQuery.urlfeed
urlfeed(feed, interval, timestamp, gzip, apikey, net) ==
    LET q0 == ("method" :> Str("urlfeed"))
        e1 == ~In(feed, self.feed_type)
        q1 == IF e1
              THEN Put(q0, "error", Text(<<"Feed can only be in ">>
                                         \o join_parts(self.feed_type)))
              ELSE q0
        e2 == ~In(interval, self.intervals)
        q2 == IF e2
              THEN Put(q1, "error", Text(<<"Interval can only be in ">>
                                         \o join_parts(self.intervals)))
              ELSE q1
        ts0 == datetime_now
        ts1 == IF interval = Str("hour") THEN minus(ts0, Hour) ELSE ts0
        ts2 == IF interval = Str("day") THEN minus(ts1, Day) ELSE ts1
        e3 == timestamp # None /\ ~Parses(timestamp.v)
        stamp == IF timestamp = None THEN Num(mktime(utctimetuple(ts2)))
                 ELSE IF e3 THEN timestamp
                 ELSE Num(mktime(utctimetuple(parse(timestamp.v))))
        q3 == IF e3 THEN Put(q2, "error", TimeError) ELSE q2
        q4 == Put(Put(Put(q3, "feed", feed), "interval", interval),
                  "timestamp", stamp)
    IN WithVerr(query(q4, gzip, apikey, net), e1 \/ e2 \/ e3)

\* URLQuery.submit.  self._access_levels is read before any field is set.
submit(url, useragent, referer, priority, access_level, callback_url, submit_vt, save_only_alerted, gzip, apikey, net) ==
    LET q0 == ("method" :> Str("submit"))
        e1 == ~In(priority, self.priorities)
        q1 == IF e1
              THEN Put(q0, "error", Text(<<"priority must be in ">>
                                         \o join_parts(self.priorities)))
              ELSE q0
    IN IF ~HasAttr("access_levels")
       THEN Effect(Raise("AttributeError"), <<>>, e1)
       ELSE
         LET e2 == ~In(access_level, self.access_levels)
             q2 == IF e2
                   THEN Put(q1, "error", Text(<<"assess_level must be in ">>
                                         \o join_parts(self.access_levels)))
                   ELSE q1
             q3 == Put(q2, "url", url)
             q4 == IF useragent # None THEN Put(q3, "useragent", useragent)
                   ELSE q3
             q5 == IF referer # None THEN Put(q4, "referer", referer) ELSE q4
             q6 == Put(Put(q5, "priority", priority),
                       "access_level", access_level)
             q7 == IF callback_url # None
                   THEN Put(q6, "callback_url", callback_url) ELSE q6
             q8 == IF submit_vt THEN Put(q7, "submit_vt", Bool(TRUE)) ELSE q7
             q9 == IF save_only_alerted
                   THEN Put(q8, "save_only_alerted", Bool(TRUE)) ELSE q8
         IN WithVerr(query(q9, gzip, apikey, net), e1 \/ e2)

\* URLQuery.user_agent_list
user_agent_list(gzip, apikey, net) ==
    query(("method" :> Str("user_agent_list")), gzip, apikey, net)

\* URLQuery.mass_submit.  The urls argument is put in no field.
mass_submit(urls, useragent, referer, access_level, priority, callback_url, gzip, apikey, net) ==
    LET q0 == ("method" :> Str("mass_submit"))
    IN IF ~HasAttr("access_levels")
       THEN Effect(Raise("AttributeError"), <<>>, FALSE)
       ELSE
         LET e1 == ~In(access_level, self.access_levels)
             q1 == IF e1
                   THEN Put(q0, "error", Text(<<"assess_level must be in ">>
                                         \o join_parts(self.access_levels)))
                   ELSE q0
             e2 == ~In(priority, self.priorities)
             q2 == IF e2
                   THEN Put(q1, "error", Text(<<"priority must be in ">>
                                         \o join_parts(self.priorities)))
                   ELSE q1
             q3 == IF useragent # None THEN Put(q2, "useragent", useragent)
                   ELSE q2
             q4 == IF referer # None THEN Put(q3, "referer", referer) ELSE q3
             q5 == Put(Put(q4, "access_level", access_level),
                       "priority", priority)
             q6 == IF callback_url # None
                   THEN Put(q5, "callback_url", callback_url) ELSE q5
         IN WithVerr(query(q6, gzip, apikey, net), e1 \/ e2)

\* URLQuery.queue_status: the caller's gzip and apikey are not passed on.
queue_status(queue_id, gzip, apikey, net) ==
    query(Put(("method" :> Str("queue_status")), "queue_id", queue_id),
          FALSE, None, net)

\* URLQuery.report.  The signature has no flag parameter: a call that passes
\* flag=... is refused by the interpreter with a TypeError.
report(report_id, recent_limit, include_details, include_screenshot, include_domain_graph, gzip, apikey, flag, net) ==
    IF flag # None
    THEN Effect(Raise("TypeError"), <<>>, FALSE)
    ELSE
      LET q0 == Put(("method" :> Str("report")), "report_id", report_id)
          q1 == IF recent_limit # None
                THEN Put(q0, "recent_limit", recent_limit) ELSE q0
          q2 == IF include_details
                THEN Put(q1, "include_details", Bool(TRUE)) ELSE q1
          q3 == IF include_screenshot
                THEN Put(q2, "include_screenshot", Bool(TRUE)) ELSE q2
          q4 == IF include_domain_graph
                THEN Put(q3, "include_domain_graph", Bool(TRUE)) ELSE q3
      IN query(q4, gzip, apikey, net)

\* URLQuery.report_list
report_list(timestamp, limit, gzip, apikey, net) ==
    LET q0 == ("method" :> Str("report_list"))
        e1 == timestamp # None /\ ~Parses(timestamp.v)
        stamp == IF timestamp = None
                 THEN Num(mktime(utctimetuple(datetime_now)))
                 ELSE IF e1 THEN timestamp
                 ELSE Num(mktime(utctimetuple(parse(timestamp.v))))
        q1 == IF e1 THEN Put(q0, "error", TimeError) ELSE q0
        q2 == Put(Put(q1, "timestamp", stamp), "limit", limit)
    IN WithVerr(query(q2, gzip, apikey, net), e1)

\* The body of URLQuery.search, lines 410-442, with its parameters bound.
\* The first statement after the dict is built reads the name self, which is
\* neither a parameter nor a module global: a NameError.  Were the name
\* defined, the rest would run as written; date_from is parsed into the local
\* timestamp, which stays unbound when the parse fails.
search_body(q, search_type, result_type, url_matching, date_from, deep, gzip, apikey, net) ==
    IF "self" \notin ooapi_globals
    THEN Effect(Raise("NameError"), <<>>, FALSE)
    ELSE
      LET q0 == ("method" :> Str("search"))
          e1 == ~In(search_type, self.search_types)
          q1 == IF e1
                THEN Put(q0, "error", Text(<<"search_type can only be in ">>
                                           \o join_parts(self.search_types)))
                ELSE q0
          e2 == ~In(result_type, self.result_types)
          q2 == IF e2
                THEN Put(q1, "error", Text(<<"result_type can only be in ">>
                                           \o join_parts(self.result_types)))
                ELSE q1
          e3 == ~In(url_matching, self.url_matchings)
          q3 == IF e3
                THEN Put(q2, "error", Text(<<"url_matching can only be in ">>
                                           \o join_parts(self.url_matchings)))
                ELSE q2
          e4 == date_from # None /\ ~Parses(date_from.v)
          stamp == IF date_from = None
                   THEN Num(mktime(utctimetuple(datetime_now)))
                   ELSE Num(mktime(utctimetuple(parse(date_from.v))))
      IN IF e4
         THEN Effect(Raise("UnboundLocalError"), <<>>, TRUE)
         ELSE
           LET q4 == Put(Put(Put(Put(Put(q3, "q", q),
                         "search_type", search_type),
                         "result_type", result_type),
                         "url_matching", url_matching), "from", stamp)
               q5 == IF deep THEN Put(q4, "deep", Bool(TRUE)) ELSE q4
           IN WithVerr(query(q5, gzip, apikey, net), e1 \/ e2 \/ e3)

\* The defaults of the signature of search, by parameter position (q has
\* none).
SearchDefaults ==
    <<None, Str("string"), Str("reports"), Str("url_host"), None,
      Bool(FALSE), Bool(FALSE), None>>
\* An argument written neither positionally nor by keyword.
LeftOut(x) == x = None \/ x = Bool(FALSE)
\* bool(x)
Truthy(x) == x # None /\ x # Bool(FALSE) /\ x # Str("")

\* URLQuery.search called on a client object: client.search(...) with the
\* first `positional` of the caller's eight values written positionally and
\* the others by keyword or left out.  The function is defined without a self
\* parameter, so the instance is bound to q and each positional value to the
\* parameter after the one it was meant for.  Eight positional values are one
\* too many, and a keyword for a parameter already bound positionally gives
\* it two values: a TypeError in both cases.  Otherwise the body runs with the
\* shifted binding.
search(q, search_type, result_type, url_matching, date_from, deep, gzip, apikey, positional, net) ==
    LET written == <<q, search_type, result_type, url_matching, date_from,
                     Bool(deep), Bool(gzip), apikey>>
        bound(j) == IF j = 1 THEN [t |-> "URLQuery", v |-> 0]
                    ELSE IF j <= positional + 1 THEN written[j - 1]
                    ELSE IF LeftOut(written[j]) THEN SearchDefaults[j]
                    ELSE written[j]
    IN IF positional = 8 \/ ~LeftOut(written[positional + 1])
       THEN Effect(Raise("TypeError"), <<>>, FALSE)
       ELSE search_body(bound(1), bound(2), bound(3), bound(4), bound(5),
                        Truthy(bound(6)), Truthy(bound(7)), bound(8), net)

\* URLQuery.reputation
reputation(q, gzip, apikey, net) ==
    query(Put(("method" :> Str("reputation")), "q", q), gzip, apikey, net)

\* ============================================================= api.py
intervals == StrList(<<"hour", "day">>)
query_types == StrList(<<"string", "regexp">>)
confidences == <<Num(0), Num(1), Num(2)>>

\* __set_default_values
set_default_values(gzip) ==
    LET d0 == <<>>
        d1 == IF c.has_private_key THEN Put(d0, "key", c.key) ELSE d0
    IN IF c.gzip_default \/ gzip THEN Put(d1, "gzip", Str("true")) ELSE d1

\* The value of r.json, which __query returns without calling it: the
\* attribute named json of the response to the POST.
response_json_attribute(net) == [t |-> "Response.json", v |-> net.json]

\* __query
module_query(q, gzip, net) ==
    LET q1 == set_default_values(gzip) @@ q
    IN Effect(IF net.ok THEN Return(response_json_attribute(net))
              ELSE Raise("ConnectionError"),
              <<[url |-> c.base_url, data |-> json_dumps(q1),
                 response |-> net]>>, FALSE)

ErrorObject(parts) == Return(("error" :> Text(parts)))

\* urlfeed_get
urlfeed_get(interval, timestamp, gzip, net) ==
    LET q0 == ("method" :> Str("urlfeed_get"))
    IN IF ~In(interval, intervals)
       THEN Effect(ErrorObject(<<"interval can only be in ">>
                               \o join_parts(intervals)), <<>>, TRUE)
       ELSE IF timestamp # None /\ ~Parses(timestamp.v)
       THEN Effect(ErrorObject(TimeError.v), <<>>, TRUE)
       ELSE
         LET stamp == IF timestamp = None
                      THEN Num(mktime(utctimetuple(datetime_now)))
                      ELSE Num(mktime(utctimetuple(parse(timestamp.v))))
         IN module_query(Put(Put(q0, "timestamp", stamp),
                             "interval", interval), gzip, net)

\* urlquery_search: the two parse calls are outside any try.
urlquery_search(q, urlquery_type, urlquery_from, urlquery_to, gzip, net) ==
    LET q0 == ("method" :> Str("urlquery_search"))
    IN IF urlquery_to # None /\ ~Parses(urlquery_to.v)
       THEN Effect(Raise("ValueError"), <<>>, TRUE)
       ELSE IF urlquery_from # None /\ ~Parses(urlquery_from.v)
       THEN Effect(Raise("ValueError"), <<>>, TRUE)
       ELSE
         LET to == IF urlquery_to = None THEN datetime_now
                   ELSE parse(urlquery_to.v)
             from == IF urlquery_from = None THEN minus(to, 30 * Day)
                     ELSE parse(urlquery_from.v)
         IN IF ~In(urlquery_type, query_types)
            THEN Effect(ErrorObject(<<"urlquery_type can only be in ">>
                                    \o join_parts(query_types)), <<>>, TRUE)
            ELSE module_query(
                   Put(Put(Put(Put(q0, "type", urlquery_type),
                       "from", Num(mktime(utctimetuple(from)))),
                       "to", Num(mktime(utctimetuple(to)))),
                       "q", q), gzip, net)

\* urlquery_submit
urlquery_submit(url, ua, referer, flags, net) ==
    module_query(Put(Put(Put(Put(("method" :> Str("urlquery_submit")),
                 "url", url), "ua", ua), "referer", referer),
                 "flags", flags), FALSE, net)

\* urlquery_get_report with the flag test off by one.
urlquery_get_report_off_by_one(urlquery_id, flag, recent_limit, gzip, net) ==
    LET q0 == ("method" :> Str("urlquery_get_report"))
    IN IF flag.v > 16
       THEN Effect(ErrorObject(<<"flag can only be <= 15">>), <<>>, TRUE)
       ELSE module_query(Put(Put(Put(q0, "urlquery_id", urlquery_id),
                             "flag", flag), "recent_limit", recent_limit),
                         gzip, net)

\* urlquery_get_report
urlquery_get_report(urlquery_id, flag, recent_limit, gzip, net) ==
    LET q0 == ("method" :> Str("urlquery_get_report"))
    IN IF flag.v > 15
       THEN Effect(ErrorObject(<<"flag can only be <= 15">>), <<>>, TRUE)
       ELSE module_query(Put(Put(Put(q0, "urlquery_id", urlquery_id),
                             "flag", flag), "recent_limit", recent_limit),
                         gzip, net)

\* urlquery_get_flagged_urls: the confidence message joins a list of ints;
\* a timestamp given by the caller is passed on as it is.
urlquery_get_flagged_urls(interval, timestamp, confidence, gzip, net) ==
    LET q0 == ("method" :> Str("urlquery_get_flagged_urls"))
    IN IF ~In(interval, intervals)
       THEN Effect(ErrorObject(<<"interval can only be in ">>
                               \o join_parts(intervals)), <<>>, TRUE)
       ELSE IF ~In(confidence, confidences)
       THEN IF join_ok(confidences)
            THEN Effect(ErrorObject(<<"confidence can only be in ">>
                                    \o join_parts(confidences)), <<>>, TRUE)
            ELSE Effect(Raise("TypeError"), <<>>, TRUE)
       ELSE
         LET stamp == IF timestamp = None
                      THEN Num(mktime(utctimetuple(datetime_now)))
                      ELSE timestamp
         IN module_query(Put(Put(Put(q0, "interval", interval),
                             "timestamp", stamp), "confidence", confidence),
                         gzip, net)

\* ------------------------------------------------------------- inputs
Gzips == BOOLEAN
ApiKeys == {None, Str(""), Str("callkey")}
SomeApiKeys == {None, Str("callkey")}
Timestamps == {None} \cup {Str(s) : s \in DateStrings}
FeedArgs == {Str("flagged"), Str("everything")}
IntervalArgs == {Str("hour"), Str("day"), Str("week")}

Urls == {Str("http://example.com")}
PriorityArgs == {Str("urlfeed"), Str("low"), Str("medium"), Str("high"),
                 Str("urgent")}
AccessArgs == {Str("public"), Str("nonpublic"), Str("private"),
               Str("secret")}
\* The optional settings of a submission: all left out, or all given.
SubmitOptions ==
    { [useragent |-> None, referer |-> None, callback_url |-> None,
       submit_vt |-> FALSE, save_only_alerted |-> FALSE],
      [useragent |-> Str("Opera/9.80"), referer |-> Str("http://ref.example"),
       callback_url |-> Str("http://cb.example"),
       submit_vt |-> TRUE, save_only_alerted |-> TRUE] }
UrlLists == { <<Str("http://a.example"), Str("http://b.example")>> }
Ids == {Str("abc")}
RecentLimits == {None, Num(16)}
FlagArgs == {Num(0), Num(15), Num(16), Num(17)}
Queries == {Str("x")}
SearchTypeArgs == {None, Str("string"), Str("soundex")}
ResultTypeArgs == {Str("reports"), Str("table")}
UrlMatchingArgs == {Str("url_host"), Str("url_query")}
\* How many of the values of a search call are written positionally.
Positionals == 0..8
\* Dicts handed to query: the one user_agent_list builds, and the one
\* report_list builds for a timestamp that does not parse.
QueryDicts ==
    { ("method" :> Str("user_agent_list")),
      ("method" :> Str("report_list")) @@ ("error" :> TimeError)
         @@ ("timestamp" :> Str("not a date")) @@ ("limit" :> Num(50)) }
\* Dicts a caller assigns to its variable d.
OwnDicts == { ("method" :> Str("user_agent_list")) }

\* ------------------------------------------------------------- actions
\* The caller has kept no call yet.
NotSeen == [proc |-> "", args |-> <<>>, payloads |-> <<>>, since |-> 0]
\* The url and body of each POST of the call, in order.
Payloads == [i \in 1..Len(sent) |-> [url |-> sent[i].url, data |-> sent[i].data]]

\* The caller's variable d is not assigned.
Unassigned == [assigned |-> FALSE, dict |-> <<>>]

\* The caller invokes a procedure and is handed its outcome.
Invoke(proc, args, eff) ==
    /\ pc = "ready"
    /\ pc' = "returned"
    /\ call' = [proc |-> proc, args |-> args]
    /\ ret' = eff.ret
    /\ sent' = eff.sent
    /\ verr' = eff.verr
    /\ self' = eff.obj
    /\ c' = eff.mod
    /\ seen' = IF seen = NotSeen THEN seen
               ELSE [seen EXCEPT !.since = IF @ < 2 THEN @ + 1 ELSE @]
    /\ UNCHANGED <<tz, dst, now, ticks>>

\* A call of a procedure that builds its request itself: it cannot reach the
\* caller's dict.
Do(proc, args, eff) ==
    /\ Invoke(proc, args, eff)
    /\ held' = held

Call_urlfeed ==
    /\ pc = "ready"
    /\ \E feed \in FeedArgs, interval \in IntervalArgs, timestamp \in Timestamps,
       gzip \in Gzips, apikey \in SomeApiKeys, net \in Transport :
        Do("urlfeed",
           [feed |-> feed, interval |-> interval, timestamp |-> timestamp,
            gzip |-> gzip, apikey |-> apikey],
           urlfeed(feed, interval, timestamp, gzip, apikey, net))

Call_submit ==
    /\ pc = "ready"
    /\ \E url \in Urls, o \in SubmitOptions, priority \in PriorityArgs,
       access_level \in AccessArgs, gzip \in Gzips, apikey \in {None},
       net \in Transport :
        Do("submit",
           [url |-> url, options |-> o, priority |-> priority,
            access_level |-> access_level, gzip |-> gzip, apikey |-> apikey],
           submit(url, o.useragent, o.referer, priority, access_level,
                  o.callback_url, o.submit_vt, o.save_only_alerted,
                  gzip, apikey, net))

Call_user_agent_list ==
    /\ pc = "ready"
    /\ \E gzip \in Gzips, apikey \in ApiKeys, net \in Transport :
        Do("user_agent_list", [gzip |-> gzip, apikey |-> apikey],
           user_agent_list(gzip, apikey, net))

Call_mass_submit ==
    /\ pc = "ready"
    /\ \E urls \in UrlLists, o \in SubmitOptions,
       access_level \in AccessArgs, priority \in {Str("low"), Str("urgent")},
       gzip \in Gzips, apikey \in {None}, net \in Transport :
        Do("mass_submit",
           [urls |-> urls, options |-> o, access_level |-> access_level,
            priority |-> priority, gzip |-> gzip, apikey |-> apikey],
           mass_submit(urls, o.useragent, o.referer, access_level, priority,
                       o.callback_url, gzip, apikey, net))

Call_queue_status ==
    /\ pc = "ready"
    /\ \E queue_id \in Ids, gzip \in Gzips, apikey \in ApiKeys,
       net \in Transport :
        Do("queue_status",
           [queue_id |-> queue_id, gzip |-> gzip, apikey |-> apikey],
           queue_status(queue_id, gzip, apikey, net))

Call_report ==
    /\ pc = "ready"
    /\ \E report_id \in Ids, recent_limit \in RecentLimits, inc \in BOOLEAN,
       gzip \in Gzips, apikey \in SomeApiKeys, flag \in {None, Num(16)},
       net \in Transport :
        Do("report",
           [report_id |-> report_id, recent_limit |-> recent_limit,
            include |-> inc, gzip |-> gzip, apikey |-> apikey, flag |-> flag],
           report(report_id, recent_limit, inc, inc, inc, gzip, apikey,
                  flag, net))

Call_report_list ==
    /\ pc = "ready"
    /\ \E timestamp \in Timestamps, limit \in {Num(50)}, gzip \in Gzips,
       apikey \in SomeApiKeys, net \in Transport :
        Do("report_list",
           [timestamp |-> timestamp, limit |-> limit, gzip |-> gzip,
            apikey |-> apikey],
           report_list(timestamp, limit, gzip, apikey, net))

Call_search ==
    /\ pc = "ready"
    /\ \E q \in Queries, search_type \in SearchTypeArgs,
       result_type \in ResultTypeArgs, url_matching \in UrlMatchingArgs,
       date_from \in {None, Str("2012-07-14 17:30"), Str("not a date")},
       deep \in {FALSE}, gzip \in {FALSE}, apikey \in {None},
       positional \in Positionals, net \in Transport :
        Do("search",
           [q |-> q, search_type |-> search_type, result_type |-> result_type,
            url_matching |-> url_matching, date_from |-> date_from,
            deep |-> deep, gzip |-> gzip, apikey |-> apikey,
            positional |-> positional],
           search(q, search_type, result_type, url_matching, date_from, deep,
                  gzip, apikey, positional, net))

\* client.query({...}, gzip, apikey): the dispatcher is a public method and
\* takes whatever dict the caller built; here the caller writes the dict in
\* the call, so the object query writes to is dropped on return.
Call_query ==
    /\ pc = "ready"
    /\ \E q \in QueryDicts, gzip \in Gzips, apikey \in SomeApiKeys,
       net \in Transport :
        /\ Invoke("query", [query |-> q, gzip |-> gzip, apikey |-> apikey],
                  query(q, gzip, apikey, net))
        /\ held' = held

\* client.query(d, gzip, apikey): the caller hands query the dict its
\* variable d refers to, and finds in d what query wrote.  The argument of
\* the call is the dict as it stands when the call is made.
Call_query_d ==
    /\ pc = "ready"
    /\ held.assigned
    /\ \E gzip \in Gzips, apikey \in SomeApiKeys, net \in Transport :
        LET eff == query(held.dict, gzip, apikey, net)
        IN /\ Invoke("query",
                     [query |-> held.dict, gzip |-> gzip, apikey |-> apikey],
                     eff)
           /\ held' = [held EXCEPT !.dict = eff.dict]

\* d = {...}
Assign ==
    /\ pc = "ready"
    /\ ~held.assigned
    /\ \E q \in OwnDicts : held' = [assigned |-> TRUE, dict |-> q]
    /\ UNCHANGED <<self, c, tz, dst, now, ticks, pc, call, ret, sent, verr, seen>>

\* del d
Del ==
    /\ pc = "ready"
    /\ held.assigned
    /\ held' = Unassigned
    /\ UNCHANGED <<self, c, tz, dst, now, ticks, pc, call, ret, sent, verr, seen>>

Call_reputation ==
    /\ pc = "ready"
    /\ \E q \in Queries, gzip \in Gzips, apikey \in ApiKeys, net \in Transport :
        Do("reputation", [q |-> q, gzip |-> gzip, apikey |-> apikey],
           reputation(q, gzip, apikey, net))

Call_urlfeed_get ==
    /\ pc = "ready"
    /\ \E interval \in IntervalArgs, timestamp \in Timestamps, gzip \in Gzips,
       net \in Transport :
        Do("urlfeed_get",
           [interval |-> interval, timestamp |-> timestamp, gzip |-> gzip],
           urlfeed_get(interval, timestamp, gzip, net))

Call_urlquery_search ==
    /\ pc = "ready"
    /\ \E q \in Queries, urlquery_type \in {Str("string"), Str("soundex")},
       urlquery_from \in {None, Str("2012-07-14 17:30"), Str("not a date")},
       urlquery_to \in Timestamps, gzip \in Gzips, net \in Transport :
        Do("urlquery_search",
           [q |-> q, urlquery_type |-> urlquery_type,
            urlquery_from |-> urlquery_from, urlquery_to |-> urlquery_to,
            gzip |-> gzip],
           urlquery_search(q, urlquery_type, urlquery_from, urlquery_to,
                           gzip, net))

Call_urlquery_submit ==
    /\ pc = "ready"
    /\ \E url \in Urls, ua \in {None, Str("Opera/9.80")}, referer \in {None},
       flags \in {None, Num(1)}, net \in Transport :
        Do("urlquery_submit",
           [url |-> url, ua |-> ua, referer |-> referer, flags |-> flags],
           urlquery_submit(url, ua, referer, flags, net))

Call_urlquery_get_report ==
    /\ pc = "ready"
    /\ \E urlquery_id \in Ids, flag \in FlagArgs, recent_limit \in {Num(6)},
       gzip \in Gzips, net \in Transport :
        Do("urlquery_get_report",
           [urlquery_id |-> urlquery_id, flag |-> flag,
            recent_limit |-> recent_limit, gzip |-> gzip],
           urlquery_get_report(urlquery_id, flag, recent_limit, gzip, net))

Call_urlquery_get_flagged_urls ==
    /\ pc = "ready"
    /\ \E interval \in {Str("hour"), Str("week")}, timestamp \in Timestamps,
       confidence \in {Num(2), Num(3)}, gzip \in Gzips, net \in Transport :
        Do("urlquery_get_flagged_urls",
           [interval |-> interval, timestamp |-> timestamp,
            confidence |-> confidence, gzip |-> gzip],
           urlquery_get_flagged_urls(interval, timestamp, confidence, gzip,
                                     net))

\* The caller takes the outcome and is ready for the next call.
Resume ==
    /\ pc = "returned"
    /\ pc' = "ready"
    /\ call' = [proc |-> "", args |-> <<>>]
    /\ ret' = NoCall
    /\ sent' = <<>>
    /\ verr' = FALSE
    /\ UNCHANGED <<self, c, tz, dst, now, ticks, seen, held>>

\* Time passes between calls.  A call kept for repeating at the same clock
\* reading is dropped, the reading being gone for good.
Tick ==
    /\ pc = "ready"
    /\ ticks < MaxTicks
    /\ ticks' = ticks + 1
    /\ now' = now + 1800
    /\ seen' = NotSeen
    /\ UNCHANGED <<self, c, tz, dst, pc, call, ret, sent, verr, held>>

Init ==
    /\ \E b \in {None, Str("http://localhost:8080/json")}, g \in BOOLEAN,
          k \in {None, Str("clientkey")} :
            self = URLQuery_init(b, g, k)
    /\ c \in [base_url : {Str("constraints.base_url")}, gzip_default : BOOLEAN,
              has_private_key : BOOLEAN, key : {Str("modulekey")}]
    /\ \E z \in Zones : tz = z.std /\ dst = z.dst
    /\ now = 1342290000
    /\ ticks = 0
    /\ pc = "ready"
    /\ call = [proc |-> "", args |-> <<>>]
    /\ ret = NoCall
    /\ sent = <<>>
    /\ verr = FALSE
    /\ seen = NotSeen
    /\ held = Unassigned

Next ==
    \/ Call_urlfeed
    \/ Call_submit
    \/ Call_user_agent_list
    \/ Call_mass_submit
    \/ Call_queue_status
    \/ Call_report
    \/ Call_report_list
    \/ Call_search
    \/ Call_reputation
    \/ Call_urlfeed_get
    \/ Call_urlquery_search
    \/ Call_urlquery_submit
    \/ Call_urlquery_get_report
    \/ Call_urlquery_get_flagged_urls
    \/ Call_query
    \/ Call_query_d
    \/ Assign
    \/ Del
    \/ Resume
    \/ Tick

Spec == Init /\ [][Next]_vars

\* ------------------------------------------------- a caller that repeats
\* The call left gzip, apikey and every date parameter to their defaults.
LeftToDefaults ==
    /\ "gzip" \in DOMAIN call.args => ~call.args.gzip
    /\ "apikey" \in DOMAIN call.args => call.args.apikey = None
    /\ \A p \in {"timestamp", "date_from", "urlquery_from", "urlquery_to"} :
          p \in DOMAIN call.args => call.args[p] = None

\* The caller keeps the call just made, with the payload it dispatched, to
\* make it again later; since counts the calls made after it (2 for more).
Remember ==
    /\ pc = "returned"
    /\ seen = NotSeen
    /\ sent # <<>>
    /\ LeftToDefaults
    /\ seen' = [proc |-> call.proc, args |-> call.args,
                payloads |-> Payloads, since |-> 0]
    /\ UNCHANGED <<self, c, tz, dst, now, ticks, pc, call, ret, sent, verr, held>>

\* A client with the stock base URL and a key of its own, in a zone with
\* daylight saving in effect, and a constraints module with a private key.
InitRepeat ==
    /\ Init
    /\ self.base_url = base_url
    /\ self.apikey = Str("clientkey")
    /\ c.has_private_key
    /\ ~c.gzip_default
    /\ dst # 0

NextRepeat ==
    \/ Call_urlfeed
    \/ Call_submit
    \/ Call_user_agent_list
    \/ Call_mass_submit
    \/ Call_queue_status
    \/ Call_report
    \/ Call_report_list
    \/ Call_search
    \/ Call_reputation
    \/ Call_urlfeed_get
    \/ Call_urlquery_search
    \/ Call_urlquery_submit
    \/ Call_urlquery_get_report
    \/ Call_urlquery_get_flagged_urls
    \/ Call_query
    \/ Call_query_d
    \/ Assign
    \/ Del
    \/ Resume
    \/ Tick
    \/ Remember

SpecRepeat == InitRepeat /\ [][NextRepeat]_vars

\* ============================================================= properties
Returned == pc = "returned"
Posted == sent # <<>>
OOProcs == {"urlfeed", "submit", "user_agent_list", "mass_submit",
            "queue_status", "report", "report_list", "search", "reputation",
            "query"}
FnProcs == {"urlfeed_get", "urlquery_search", "urlquery_submit",
            "urlquery_get_report", "urlquery_get_flagged_urls"}

\* The caller was handed a local validation error: a returned object with an
\* error message, and nothing sent.
IsErrorObject ==
    /\ ret.kind = "return"
    /\ "error" \in DOMAIN ret.val
    /\ ret.val["error"].t = "text"
Mentions(s) ==
    \E i \in 1..Len(ret.val["error"].v) : ret.val["error"].v[i] = s

\* The enumeration parameters and their allowed sets, per procedure.
IntervalSet == {"hour", "day"}
FeedSet == {"unfiltered", "flagged"}
PrioritySet == {"urlfeed", "low", "medium", "high"}
AccessSet == {"public", "nonpublic", "private"}
SearchTypeSet == {"string", "regexp", "ids_alert", "urlquery_alert",
                  "js_script_hash"}
QueryTypeSet == {"string", "regexp"}
ResultTypeSet == {"reports", "url_list"}
UrlMatchingSet == {"url_host", "url_path"}
ConfidenceSet == {"0", "1", "2"}
Enum(proc, param, allowed) ==
    [proc |-> proc, param |-> param, allowed |-> allowed]
EnumParams ==
    { Enum("urlfeed_get", "interval", IntervalSet),
      Enum("urlquery_get_flagged_urls", "interval", IntervalSet),
      Enum("urlquery_search", "urlquery_type", QueryTypeSet),
      Enum("urlfeed", "feed", FeedSet),
      Enum("urlfeed", "interval", IntervalSet),
      Enum("submit", "priority", PrioritySet),
      Enum("submit", "access_level", AccessSet),
      Enum("mass_submit", "priority", PrioritySet),
      Enum("mass_submit", "access_level", AccessSet),
      Enum("search", "search_type", SearchTypeSet),
      Enum("search", "result_type", ResultTypeSet),
      Enum("search", "url_matching", UrlMatchingSet) }
\* The call gave parameter e.param a value outside its allowed set.
Outside(e) ==
    /\ Returned
    /\ call.proc = e.proc
    /\ call.args[e.param].t = "str"
    /\ call.args[e.param].v \notin e.allowed
BadConfidence ==
    /\ Returned
    /\ call.proc = "urlquery_get_flagged_urls"
    /\ call.args.confidence \notin {Num(0), Num(1), Num(2)}

\* The parameters that take a date/time string, and the request field each
\* fills.
DateParam(proc, param, field) ==
    [proc |-> proc, param |-> param, field |-> field]
DateParams ==
    { DateParam("urlfeed_get", "timestamp", "timestamp"),
      DateParam("urlquery_search", "urlquery_from", "from"),
      DateParam("urlquery_search", "urlquery_to", "to"),
      DateParam("urlquery_get_flagged_urls", "timestamp", "timestamp"),
      DateParam("urlfeed", "timestamp", "timestamp"),
      DateParam("report_list", "timestamp", "timestamp"),
      DateParam("search", "date_from", "from") }
Given(d) ==
    /\ Returned
    /\ call.proc = d.proc
    /\ call.args[d.param] # None

\* The other arguments of the call are valid: every other enumeration
\* parameter is in its set (or left to its default) and every date string
\* given parses.
OthersValid(e) ==
    /\ \A f \in EnumParams \ {e} :
          (f.proc = call.proc /\ call.args[f.param].t = "str")
              => call.args[f.param].v \in f.allowed
    /\ \A d \in DateParams :
          (d.proc = call.proc /\ call.args[d.param] # None)
              => Parses(call.args[d.param].v)

\* C1: a call that gives an enumeration parameter a value outside its allowed
\* set (its other arguments being valid) issues no network call and returns
\* an error object whose message contains every member of the allowed set.
C1_EnumRejected ==
    /\ \A e \in EnumParams :
         (Outside(e) /\ OthersValid(e)) =>
            /\ ~Posted
            /\ IsErrorObject
            /\ \A m \in e.allowed : Mentions(m)
    /\ (BadConfidence /\ call.args.interval.v \in IntervalSet) =>
            /\ ~Posted
            /\ IsErrorObject
            /\ \A m \in ConfidenceSet : Mentions(m)

\* C2: a POST is issued only for a request built without any
\* validation failure, and no transmitted request carries an error field.
C2_NoPostAfterValidationError ==
    (Returned /\ Posted) =>
        /\ ~verr
        /\ \A i \in 1..Len(sent) : "error" \notin DOMAIN sent[i].data
\* A validator failed, the caller got the error object and nothing was sent.
C2_Witness ==
    Returned /\ verr /\ ~Posted /\ IsErrorObject /\ call.proc \in OOProcs

\* C3: submit with a valid priority and access level dispatches exactly one
\* POST whose body has method "submit", the given url, priority and
\* access_level and no error key, and returns the response verbatim.
C3_SubmitDispatches ==
    ( /\ Returned
      /\ call.proc = "submit"
      /\ call.args.priority.v \in PrioritySet
      /\ call.args.access_level.v \in AccessSet ) =>
        /\ Len(sent) = 1
        /\ Get(sent[1].data, "method") = Str("submit")
        /\ Get(sent[1].data, "url") = call.args.url
        /\ Get(sent[1].data, "priority") = call.args.priority
        /\ Get(sent[1].data, "access_level") = call.args.access_level
        /\ "error" \notin DOMAIN sent[1].data
        /\ sent[1].response.ok => ret = Return(sent[1].response.json)

FlagLimit == 15
RejectedLocally == ~Posted /\ IsErrorObject
\* C4 as stated: a report call with flag=16, and the v1 report call with any
\* flag above 15, returns a validation error object and issues no network
\* call.
C4_ReportFlagRejected ==
    ( /\ Returned
      /\ \/ call.proc = "report" /\ call.args.flag = Num(16)
         \/ call.proc = "urlquery_get_report" /\ call.args.flag.v > FlagLimit )
    => RejectedLocally
\* C4 amended: the v1 report call urlquery_get_report with any flag above 15
\* returns a validation error object and issues no network call.
C4_V1FlagRejected ==
    ( /\ Returned
      /\ call.proc = "urlquery_get_report"
      /\ call.args.flag.v > FlagLimit )
    => RejectedLocally
C4_Witness ==
    /\ Returned
    /\ call.proc = "urlquery_get_report"
    /\ call.args.flag = Num(16)
    /\ RejectedLocally

ThirtyDays == 2592000
NoBounds(from, to) ==
    /\ Returned
    /\ call.args[from] = None
    /\ (to # "" => call.args[to] = None)
\* C5: urlquery_search and search, given a query string and no
\* explicit bounds, build a request whose 'to' is the current time and whose
\* 'from' is 'to' minus exactly 30 days.
C5_RangeDefault ==
    ( \/ /\ call.proc = "urlquery_search"
         /\ NoBounds("urlquery_from", "urlquery_to")
         /\ call.args.urlquery_type.v \in QueryTypeSet
      \/ /\ call.proc = "search"
         /\ NoBounds("date_from", "")
         /\ call.args.search_type = None
         /\ call.args.result_type.v \in ResultTypeSet
         /\ call.args.url_matching.v \in UrlMatchingSet ) =>
        /\ Len(sent) = 1
        /\ Get(sent[1].data, "to") = Num(now)
        /\ Get(sent[1].data, "from") = Num(now - ThirtyDays)

\* C6: a date/time string the parser cannot parse makes the call return a
\* validation error object whose message reports that string, with no
\* exception and no network call.
C6_ParseFailureReported ==
    \A d \in DateParams :
        (Given(d) /\ ~Parses(call.args[d.param].v)) =>
            /\ ~Posted
            /\ IsErrorObject
            /\ Mentions(call.args[d.param].v)

\* The UTC epoch seconds of a parsed instant: a naive datetime is read as UTC.
UtcEpoch(dt) == IF dt.aware THEN dt.wall - dt.off ELSE dt.wall
\* C7: for a valid timestamp string the field of the built request is the UTC
\* epoch seconds of the parsed instant, whatever the local zone.
C7_EpochIsUtc ==
    \A d \in DateParams :
        (Given(d) /\ Parses(call.args[d.param].v) /\ Posted) =>
            Get(sent[1].data, d.field) =
                Num(UtcEpoch(parse(call.args[d.param].v)))

GzipDefault ==
    IF call.proc \in OOProcs THEN self.gzip_default ELSE c.gzip_default
\* C8: the transmitted request has a gzip field exactly when the call's gzip
\* argument or the client/module default is true.
C8_GzipField ==
    (Returned /\ Posted /\ "gzip" \in DOMAIN call.args) =>
        ("gzip" \in DOMAIN sent[1].data <=> (call.args.gzip \/ GzipDefault))

EffectiveKey ==
    IF call.args.apikey # None THEN call.args.apikey ELSE self.apikey
\* C9: in the object variant the transmitted request has a key field exactly
\* when the effective key (the call's apikey when given, else the client's)
\* is non-empty, and the field then equals it.
C9_KeyField ==
    (Returned /\ Posted /\ call.proc \in OOProcs
        /\ "apikey" \in DOMAIN call.args) =>
        /\ "key" \in DOMAIN sent[1].data <=> EffectiveKey.v # ""
        /\ "key" \in DOMAIN sent[1].data => sent[1].data["key"] = EffectiveKey

\* C10: every POST issued through a client object goes to the base URL
\* configured for that client.
C10_PostsToClientBaseUrl ==
    (Returned /\ call.proc \in OOProcs) =>
        \A i \in 1..Len(sent) : sent[i].url = self.base_url

\* The caller made the kept call again: same procedure, same arguments (a
\* dict argument compared by its contents), same clock reading, same client
\* and module.
Repeated ==
    /\ Returned
    /\ seen # NotSeen
    /\ seen.since >= 1
    /\ call.proc = seen.proc
    /\ call.args = seen.args
\* C11: a call made again with the same arguments on the same client and
\* module at the same clock reading builds the same payload (the same POSTs,
\* to the same url, with the same body) as the first time, whatever calls
\* were made in between.
C11_SamePayload == Repeated => Payloads = seen.payloads
\* A default-timestamp feed request was dispatched again, at least one other
\* call having been made since the first time, with the same payload.
C11_Witness ==
    /\ Repeated
    /\ seen.since = 2
    /\ call.proc \in {"urlfeed", "urlfeed_get"}
    /\ Posted
    /\ Payloads = seen.payloads

\* C12: no step of any call, whether it succeeds, fails validation or fails
\* in transport, and whatever gzip or apikey it is given, changes the
\* client's base_url, gzip_default or apikey.
C12_ConfigKept ==
    [][ /\ self'.base_url = self.base_url
        /\ self'.gzip_default = self.gzip_default
        /\ self'.apikey = self.apikey ]_vars
\* A call that overrode both the key and the gzip flag of a client with
\* another key and gzip off was dispatched and failed in transport.
C12_Witness ==
    /\ Returned
    /\ call.proc \in OOProcs
    /\ call.args.gzip
    /\ call.args.apikey = Str("callkey")
    /\ Posted
    /\ ret = Raise("ConnectionError")
    /\ ~self.gzip_default
    /\ self.apikey = Str("clientkey")

\* The timestamp field of the dispatched request.
SentTimestamp == Get(sent[1].data, "timestamp")
\* C13: with no timestamp given, urlfeed_get sets the timestamp field to the
\* current time, and urlfeed sets it to the current time shifted back by
\* exactly 3600 seconds when the interval is 'hour' and by exactly 86400
\* seconds when it is 'day'.
C13_TimestampDefault ==
    (Returned /\ Posted /\ call.proc \in {"urlfeed_get", "urlfeed"}
        /\ call.args.timestamp = None) =>
        /\ call.proc = "urlfeed_get" => SentTimestamp = Num(now)
        /\ (call.proc = "urlfeed" /\ call.args.interval = Str("hour"))
              => SentTimestamp = Num(now - 3600)
        /\ (call.proc = "urlfeed" /\ call.args.interval = Str("day"))
              => SentTimestamp = Num(now - 86400)

\* The validators of the client-object procedures that have several, in code
\* order: the parameter checked and, for an enumeration, its allowed set.
Validator(param, kind, allowed) ==
    [param |-> param, kind |-> kind, allowed |-> allowed]
Validators ==
    [ urlfeed |-> << Validator("feed", "enum", FeedSet),
                     Validator("interval", "enum", IntervalSet),
                     Validator("timestamp", "date", {}) >>,
      submit |-> << Validator("priority", "enum", PrioritySet),
                    Validator("access_level", "enum", AccessSet) >>,
      mass_submit |-> << Validator("access_level", "enum", AccessSet),
                         Validator("priority", "enum", PrioritySet) >>,
      search |-> << Validator("search_type", "enum", SearchTypeSet),
                    Validator("result_type", "enum", ResultTypeSet),
                    Validator("url_matching", "enum", UrlMatchingSet) >> ]
\* The argument of the call fails validator v.
Fails(v) ==
    IF v.kind = "enum"
    THEN call.args[v.param].t = "str" /\ call.args[v.param].v \notin v.allowed
    ELSE call.args[v.param] # None /\ ~Parses(call.args[v.param].v)
FailingAt(vs) == {i \in 1..Len(vs) : Fails(vs[i])}
Last(S) == CHOOSE i \in S : \A j \in S : j <= i
\* The returned error message is the one validator v writes.
MessageOf(v) ==
    IF v.kind = "enum" THEN \A m \in v.allowed : Mentions(m)
    ELSE Mentions("Unable to convert time to timestamp: ")
\* C14: when several validators of one client-object call fail at once, the
\* call returns (sending nothing) an object whose error field holds the
\* message of the last failing validator in code order, and not that of an
\* earlier one.
C14_LastErrorWins ==
    (Returned /\ call.proc \in DOMAIN Validators
        /\ Cardinality(FailingAt(Validators[call.proc])) >= 2) =>
        LET vs == Validators[call.proc]
            n == Last(FailingAt(vs))
        IN /\ ~Posted
           /\ IsErrorObject
           /\ MessageOf(vs[n])
           /\ \A i \in FailingAt(vs) \ {n} : ~MessageOf(vs[i])

\* C15: mass_submit with a collection of urls and a valid access_level and
\* priority dispatches exactly one request, with method "mass_submit", whose
\* body carries the urls together with the shared settings.
C15_MassSubmitDispatches ==
    ( /\ Returned
      /\ call.proc = "mass_submit"
      /\ call.args.access_level.v \in AccessSet
      /\ call.args.priority.v \in PrioritySet ) =>
        /\ Len(sent) = 1
        /\ Get(sent[1].data, "method") = Str("mass_submit")
        /\ "urls" \in DOMAIN sent[1].data
        /\ sent[1].data["urls"] = call.args.urls
        /\ Get(sent[1].data, "access_level") = call.args.access_level
        /\ Get(sent[1].data, "priority") = call.args.priority
        /\ Get(sent[1].data, "useragent") = call.args.options.useragent
        /\ Get(sent[1].data, "referer") = call.args.options.referer
        /\ Get(sent[1].data, "callback_url") = call.args.options.callback_url

====
